---- MODULE Spec2Model ----
(***************************************************************************)
(* Retention Guard: the risk scoring pipeline (pipeline.py, model.py,      *)
(* data.py) and the dashboard handler that runs it (app.py).               *)
(*                                                                         *)
(* Conventions of the model                                                *)
(*  - A DataFrame is [columns |-> set of column names, rows |-> sequence   *)
(*    of rows]; a row is a function from the frame's columns to values.    *)
(*  - Probabilities and risk scores are integers in units of 1/10000, so   *)
(*    0.7 is 7000 and 0.6999 is 6999.                                      *)
(*  - A column name that the code builds by concatenation is a sequence of *)
(*    text pieces: "dept_HR" is <<"dept", "_", "HR">>; a categorical level *)
(*    is itself a sequence of pieces, so that str.replace has something to *)
(*    remove.                                                              *)
(*  - The fitted random forest is a library object; what it returns        *)
(*    (feature_importances_, predict_proba) is drawn from bounded sets.    *)
(***************************************************************************)
EXTENDS Integers, Sequences, FiniteSets, TLC

VARIABLES
    fs,           \* the working directory: outputs/upload.csv, outputs/retention_scores.csv
    pc,           \* per session: position in the handler / run_pipeline
    own,          \* per session: the session's own input (flow, sample row count, uploaded frame)
    df,           \* per session: run_pipeline's df
    training_df,  \* per session: run_pipeline's training_df
    result,       \* per session: the ModelResult of train_model
    risk_scores,  \* per session: score(result.model, df)
    output,       \* per session: run_pipeline's output frame
    source_df,    \* per session: what the handler reads back from output_path
    error,        \* per session: the exception that ended the run
    call,         \* a single call of one of the pure functions
    ret           \* what that call returned

vars == <<fs, pc, own, df, training_df, result, risk_scores, output,
          source_df, error, call, ret>>

(***************************************************************************)
(* Bounds of the model.                                                    *)
(***************************************************************************)
MaxRows == 2
MaxMissing == 2
ForestUnits == 2
ImportanceUnits == 4
Window == 2

SessionIds == {1, 2}

(***************************************************************************)
(* Program constants.                                                      *)
(***************************************************************************)
REQUIRED_COLUMNS ==
    << "employee_id", "dept", "tenure_months", "last_promotion_months",
       "salary_band", "manager_span", "overtime_hours_month", "engagement_score",
       "absenteeism_days_month", "peer_turnover_rate", "performance_score",
       "internal_mobility" >>

TARGET_COLUMN == "exit_flag"

cat_features == << "dept", "salary_band" >>

output_columns ==
    << "employee_id", "dept", "tenure_months", "last_promotion_months",
       "engagement_score", "overtime_hours_month", "absenteeism_days_month",
       "performance_score", "peer_turnover_rate", "internal_mobility" >>

HighThreshold == 7000
MediumThreshold == 4000
EngagementThreshold == 60
OvertimeThreshold == 12
AbsenteeismThreshold == 3
PromotionThreshold == 36
HeuristicThreshold == 2
TopK == 8

(***************************************************************************)
(* Sequences and frames.                                                   *)
(***************************************************************************)
Range(seq) == {seq[i] : i \in DOMAIN seq}

Prefix(seq, n) == SubSeq(seq, 1, IF Len(seq) < n THEN Len(seq) ELSE n)

NoFrame == [columns |-> {}, rows |-> <<>>]

NoFile == [exists |-> FALSE, columns |-> {}, rows |-> <<>>]

\* DataFrame.to_csv(path, index=False): the header and the rows, without the index.
to_csv(frame) == [exists |-> TRUE, columns |-> frame.columns, rows |-> frame.rows]

\* pd.read_csv(path) of a file written by to_csv.
read_csv(file) == [columns |-> file.columns, rows |-> file.rows]

\* frame[cols]: the projection of a frame on a list of columns.
Project(frame, cols) ==
    [columns |-> Range(cols),
     rows |-> [i \in DOMAIN frame.rows |-> [c \in Range(cols) |-> frame.rows[i][c]]]]

\* frame[col] = values: a column assignment, one value per row.
WithColumn(frame, col, values) ==
    [columns |-> frame.columns \cup {col},
     rows |-> [i \in DOMAIN frame.rows |->
                  [c \in frame.columns \cup {col} |->
                      IF c = col THEN values[i] ELSE frame.rows[i][c]]]]

(***************************************************************************)
(* pipeline.py: the risk bander.                                           *)
(***************************************************************************)
\* Variant: both boundaries exclusive.
infer_risk_band_strict(score_value) ==
    IF score_value > HighThreshold THEN "High"
    ELSE IF score_value > MediumThreshold THEN "Medium"
    ELSE "Low"

_infer_risk_band(score_value) ==
    IF score_value >= HighThreshold THEN "High"
    ELSE IF score_value >= MediumThreshold THEN "Medium"
    ELSE "Low"

(***************************************************************************)
(* pipeline.py: label synthesis.                                           *)
(***************************************************************************)
AsInt(b) == IF b THEN 1 ELSE 0

heuristic(row) ==
      AsInt(row["engagement_score"] < EngagementThreshold)
    + AsInt(row["overtime_hours_month"] > OvertimeThreshold)
    + AsInt(row["absenteeism_days_month"] > AbsenteeismThreshold)
    + AsInt(row["last_promotion_months"] > PromotionThreshold)

\* Variant: the label is assigned on the caller's frame, without df.copy().
prepare_in_place(frame) ==
    IF TARGET_COLUMN \in frame.columns
    THEN [caller |-> frame, returned |-> frame]
    ELSE LET labelled ==
                 WithColumn(frame, TARGET_COLUMN,
                     [i \in DOMAIN frame.rows |->
                         AsInt(heuristic(frame.rows[i]) >= HeuristicThreshold)])
         IN [caller |-> labelled, returned |-> labelled]

\* Variant: the overtime comparison is inclusive (>= 12).
prepare_inclusive(frame) ==
    IF TARGET_COLUMN \in frame.columns
    THEN [caller |-> frame, returned |-> frame]
    ELSE [caller |-> frame,
          returned |->
              WithColumn(frame, TARGET_COLUMN,
                  [i \in DOMAIN frame.rows |->
                      AsInt(   AsInt(frame.rows[i]["engagement_score"] < EngagementThreshold)
                             + AsInt(frame.rows[i]["overtime_hours_month"] >= OvertimeThreshold)
                             + AsInt(frame.rows[i]["absenteeism_days_month"] > AbsenteeismThreshold)
                             + AsInt(frame.rows[i]["last_promotion_months"] > PromotionThreshold)
                            >= HeuristicThreshold)])]

\* The result is the caller's frame after the call and the frame returned.
_prepare_training_data(frame) ==
    IF TARGET_COLUMN \in frame.columns
    THEN [caller |-> frame, returned |-> frame]
    ELSE [caller |-> frame,
          returned |->
              WithColumn(frame, TARGET_COLUMN,
                  [i \in DOMAIN frame.rows |->
                      AsInt(heuristic(frame.rows[i]) >= HeuristicThreshold)])]

(***************************************************************************)
(* data.py: loading and the synthetic sample.                              *)
(***************************************************************************)
NoError == [kind |-> "none", text |-> "", names |-> <<>>]

Missing(columns) == SelectSeq(REQUIRED_COLUMNS, LAMBDA col : col \notin columns)

\* Variant: the error names only the first missing column.
load_csv_first_only(file) ==
    IF ~file.exists
    THEN [ok |-> FALSE, frame |-> NoFrame,
          error |-> [kind |-> "FileNotFoundError", text |-> "", names |-> <<>>]]
    ELSE IF Missing(file.columns) # <<>>
    THEN [ok |-> FALSE, frame |-> NoFrame,
          error |-> [kind |-> "ValueError", text |-> "Missing required columns",
                     names |-> Prefix(Missing(file.columns), 1)]]
    ELSE [ok |-> TRUE, frame |-> read_csv(file), error |-> NoError]

\* The outcome of a call that may raise: ok with a frame, or the exception.
load_csv(file) ==
    IF ~file.exists
    THEN [ok |-> FALSE, frame |-> NoFrame,
          error |-> [kind |-> "FileNotFoundError", text |-> "", names |-> <<>>]]
    ELSE IF Missing(file.columns) # <<>>
    THEN [ok |-> FALSE, frame |-> NoFrame,
          error |-> [kind |-> "ValueError", text |-> "Missing required columns",
                     names |-> Missing(file.columns)]]
    ELSE [ok |-> TRUE, frame |-> read_csv(file), error |-> NoError]

\* One record. The five fields no modelled code reads (they reach only the
\* fitted forest) hold fixed values.
Row(id, dept, band, engagement, overtime, absenteeism, promotion) ==
    [employee_id |-> id, dept |-> dept, tenure_months |-> 24,
     last_promotion_months |-> promotion, salary_band |-> band, manager_span |-> 5,
     overtime_hours_month |-> overtime, engagement_score |-> engagement,
     absenteeism_days_month |-> absenteeism, peer_turnover_rate |-> 1,
     performance_score |-> 74, internal_mobility |-> 0]

\* generate_sample draws from a generator seeded with 42: a fixed function of
\* the row count. The values stand for one such draw, within the generator's
\* ranges (five departments, bands A..D, engagement 30..98, ...).
generate_sample(rows) ==
    [columns |-> Range(REQUIRED_COLUMNS),
     rows |-> [idx \in 1..rows |->
                  IF idx % 2 = 1
                  THEN Row(1000 + idx - 1, <<"HR">>, <<"B">>, 80, 5, 1, 10)
                  ELSE Row(1000 + idx - 1, <<"Sales">>, <<"A">>, 50, 15, 1, 10)]]

(***************************************************************************)
(* model.py: encoding, training, importance extraction, scoring.           *)
(***************************************************************************)
features(frame) == SelectSeq(REQUIRED_COLUMNS, LAMBDA col : col \in frame.columns)

num_features(frame) ==
    SelectSeq(features(frame),
              LAMBDA col : col \notin Range(cat_features) /\ col # "employee_id")

\* The categorical levels of the model, in the order OneHotEncoder sorts them
\* (code point order: upper case before lower case).
SortedLevels ==
    << <<"A">>, <<"B">>, <<"C">>, <<"D">>, <<"Engineering">>, <<"Finance">>, <<"HR">>,
       <<"Ops">>, <<"Sales">>, <<"cat__", "Ops">>, <<"num__", "B">> >>

\* OneHotEncoder.categories_ of one feature: the distinct levels seen at fit, sorted.
categories(frame, feature) ==
    SelectSeq(SortedLevels,
              LAMBDA level : \E i \in DOMAIN frame.rows : frame.rows[i][feature] = level)

\* get_feature_names_out(cat_features): feature + "_" + level, feature by feature.
RECURSIVE cat_names_from(_, _)
cat_names_from(frame, k) ==
    IF k > Len(cat_features) THEN <<>>
    ELSE [i \in DOMAIN categories(frame, cat_features[k]) |->
              <<cat_features[k], "_">> \o categories(frame, cat_features[k])[i]]
         \o cat_names_from(frame, k + 1)

cat_names(frame) == cat_names_from(frame, 1)

\* feature_names = num_features + cat_names
feature_names(frame) ==
    [i \in DOMAIN num_features(frame) |-> <<num_features(frame)[i]>>] \o cat_names(frame)

\* zip(feature_names, importances)
Zip(names, weights) == [i \in DOMAIN names |-> [name |-> names[i], weight |-> weights[i]]]

\* Variant: a sort by descending weight that reverses ties.
PlaceReversed(pairs, i) ==
    Cardinality({j \in DOMAIN pairs : pairs[j].weight > pairs[i].weight})
    + Cardinality({j \in DOMAIN pairs : j > i /\ pairs[j].weight = pairs[i].weight}) + 1

\* sorted(pairs, key=weight, reverse=True) is stable: the place of pair i is
\* after every heavier pair and after the equal pairs that precede it.
Place(pairs, i) ==
    Cardinality({j \in DOMAIN pairs : pairs[j].weight > pairs[i].weight})
    + Cardinality({j \in DOMAIN pairs : j < i /\ pairs[j].weight = pairs[i].weight}) + 1

sorted_desc(pairs) ==
    [k \in DOMAIN pairs |-> pairs[CHOOSE i \in DOMAIN pairs : Place(pairs, i) = k]]

\* The returned dict, in insertion order: a sequence of (name, weight).
_extract_feature_importance(names, importances) ==
    Prefix(sorted_desc(Zip(names, importances)), TopK)

\* What stops pipeline.fit / predict_proba / roc_auc_score in train_model.
train_error(frame) ==
    IF TARGET_COLUMN \notin frame.columns
    THEN [kind |-> "ValueError", text |-> "Training data must include exit_flag column.",
          names |-> <<>>]
    ELSE IF Len(frame.rows) = 0
    THEN [kind |-> "ValueError", text |-> "Found array with 0 sample(s)", names |-> <<>>]
    ELSE IF Cardinality({frame.rows[i][TARGET_COLUMN] : i \in DOMAIN frame.rows}) < 2
    THEN [kind |-> "IndexError", text |-> "index 1 is out of bounds for axis 1 with size 1",
          names |-> <<>>]
    ELSE NoError

NoResult == [fitted |-> FALSE, feature_names |-> <<>>, feature_importance |-> <<>>]

\* ModelResult: the fitted pipeline (its encoded columns) and the importance table.
train_model(frame, importances) ==
    [fitted |-> TRUE, feature_names |-> feature_names(frame),
     feature_importance |-> _extract_feature_importance(feature_names(frame), importances)]

(***************************************************************************)
(* pipeline.py: the top driver and the scored output.                      *)
(***************************************************************************)
\* str.replace(piece, ""): every occurrence of the piece is removed.
Replace(name, piece) == SelectSeq(name, LAMBDA t : t # piece)

\* Variant: the field prefix of a one-hot column is dropped, leaving the level.
top_driver_level_only(importances) ==
    IF importances = <<>> THEN <<"insufficient data">>
    ELSE LET top == importances[CHOOSE i \in DOMAIN importances :
                        /\ \A j \in DOMAIN importances :
                               importances[j].weight <= importances[i].weight
                        /\ \A j \in 1..(i - 1) :
                               importances[j].weight < importances[i].weight].name
         IN IF Len(top) > 2 THEN SubSeq(top, 3, Len(top)) ELSE top

\* max(importances, key=importances.get): the first key of maximal weight.
_top_driver_summary(importances) ==
    IF importances = <<>> THEN <<"insufficient data">>
    ELSE LET top == importances[CHOOSE i \in DOMAIN importances :
                        /\ \A j \in DOMAIN importances :
                               importances[j].weight <= importances[i].weight
                        /\ \A j \in 1..(i - 1) :
                               importances[j].weight < importances[i].weight].name
         IN Replace(Replace(top, "cat__"), "num__")

\* numpy round(3) of a value in 1/10000: to the nearest 1/1000, halves to even.
round3(p) ==
    LET q == p \div 10
        r == p % 10
    IN IF r < 5 THEN 10 * q
       ELSE IF r > 5 THEN 10 * (q + 1)
       ELSE IF q % 2 = 0 THEN 10 * q ELSE 10 * (q + 1)

\* Variant: the band is taken from the unrounded probability.
build_output_band_of_raw(frame, scores, model_result) ==
    LET base == Project(frame, output_columns)
        scored == WithColumn(base, "risk_score", [i \in DOMAIN scores |-> round3(scores[i])])
        banded == WithColumn(scored, "risk_band",
                      [i \in DOMAIN scored.rows |-> _infer_risk_band(scores[i])])
    IN WithColumn(banded, "top_driver",
           [i \in DOMAIN banded.rows |-> _top_driver_summary(model_result.feature_importance)])

\* run_pipeline, lines 68-83: the output frame.
build_output(frame, scores, model_result) ==
    LET base == Project(frame, output_columns)
        scored == WithColumn(base, "risk_score", [i \in DOMAIN scores |-> round3(scores[i])])
        banded == WithColumn(scored, "risk_band",
                      [i \in DOMAIN scored.rows |->
                          _infer_risk_band(scored.rows[i]["risk_score"])])
    IN WithColumn(banded, "top_driver",
           [i \in DOMAIN banded.rows |-> _top_driver_summary(model_result.feature_importance)])

(***************************************************************************)
(* What the library objects may return.                                    *)
(***************************************************************************)
\* The sequences of n naturals that sum to k.
RECURSIVE Compositions(_, _)
Compositions(n, k) ==
    IF n = 0 THEN (IF k = 0 THEN {<<>>} ELSE {})
    ELSE UNION {{<<h>> \o t : t \in Compositions(n - 1, k - h)} : h \in 0..k}

\* feature_importances_ of a forest over n encoded columns: normalised (here
\* in units of 1/units), or all zero when no tree splits.
Importances(n, units) == Compositions(n, units) \cup {[i \in 1..n |-> 0]}

\* predict_proba(...)[:, 1] around the band thresholds, in 1/10000.
ScoreSamples == {0, 3996, 6985, 6996}

\* The forest is seeded (random_state=42): one fixed outcome per training frame,
\* used where two runs must agree on equal inputs.
SeededImportances(frame) ==
    [i \in DOMAIN feature_names(frame) |-> IF i = Len(frame.rows) THEN 1 ELSE 0]

SeededProba(frame) ==
    [i \in DOMAIN frame.rows |->
        IF heuristic(frame.rows[i]) >= HeuristicThreshold THEN 6996 ELSE 3996]

(***************************************************************************)
(* Inputs.                                                                 *)
(***************************************************************************)
\* Uploaded records: thresholds hit exactly, levels that contain the text
\* "cat__" / "num__", and a supplied exit_flag that differs from the synthetic.
UploadRow(k, id) ==
    IF k = 1 THEN Row(id, <<"HR">>, <<"A">>, 60, 12, 3, 36)
    ELSE Row(id, <<"cat__", "Ops">>, <<"num__", "B">>, 59, 13, 0, 0)

UploadFlag(k) == IF k = 1 THEN 1 ELSE 0

UploadKinds == {1, 2}

UploadFrame(q, hasFlag, missing) ==
    LET cols == (Range(REQUIRED_COLUMNS) \cup (IF hasFlag THEN {TARGET_COLUMN} ELSE {}))
                \ missing
    IN [columns |-> cols,
        rows |-> [i \in DOMAIN q |->
                     [c \in cols |-> IF c = TARGET_COLUMN THEN UploadFlag(q[i])
                                     ELSE UploadRow(q[i], i)[c]]]]

RowChoices ==
    {q \in UNION {[1..n -> UploadKinds] : n \in 0..MaxRows} :
        \A i, j \in DOMAIN q : i < j => q[i] <= q[j]}

MissingChoices == {m \in SUBSET Range(REQUIRED_COLUMNS) : Cardinality(m) <= MaxMissing}

UploadFrames ==
    {UploadFrame(q, hasFlag, missing) :
        q \in RowChoices, hasFlag \in BOOLEAN, missing \in MissingChoices}

NoInput == [flow |-> "off", rows |-> 0, frame |-> NoFrame]

Inputs ==
    {[flow |-> "sample", rows |-> n, frame |-> NoFrame] : n \in 0..MaxRows}
    \cup {[flow |-> "upload", rows |-> 0, frame |-> f] : f \in UploadFrames}
    \cup {[flow |-> "none", rows |-> 0, frame |-> NoFrame]}

\* Two dashboard sessions: inputs whose runs succeed and differ.
SessionInputs ==
    {[flow |-> "sample", rows |-> 2, frame |-> NoFrame],
     [flow |-> "sample", rows |-> 3, frame |-> NoFrame],
     [flow |-> "upload", rows |-> 0, frame |-> UploadFrame(<<1, 2>>, FALSE, {})],
     [flow |-> "upload", rows |-> 0, frame |-> UploadFrame(<<1, 2>>, TRUE, {})]}

(***************************************************************************)
(* The handler of app.py (lines 97-116) around run_pipeline.               *)
(***************************************************************************)
NoCall == [fn |-> "none", done |-> FALSE, score |-> 0, frame |-> NoFrame,
           names |-> <<>>, weights |-> <<>>]

NoRet == [band |-> "", frames |-> [caller |-> NoFrame, returned |-> NoFrame],
          table |-> <<>>]

InitSessions(inputs) ==
    /\ fs = [upload |-> NoFile, output |-> NoFile]
    /\ own = inputs
    /\ pc = [s \in SessionIds |-> IF inputs[s].flow = "off" THEN "off" ELSE "start"]
    /\ df = [s \in SessionIds |-> NoFrame]
    /\ training_df = [s \in SessionIds |-> NoFrame]
    /\ result = [s \in SessionIds |-> NoResult]
    /\ risk_scores = [s \in SessionIds |-> <<>>]
    /\ output = [s \in SessionIds |-> NoFrame]
    /\ source_df = [s \in SessionIds |-> NoFrame]
    /\ error = [s \in SessionIds |-> NoError]

Init ==
    /\ \E input \in Inputs :
           InitSessions([s \in SessionIds |-> IF s = 1 THEN input ELSE NoInput])
    /\ call = NoCall
    /\ ret = NoRet

\* Variant: the unscored frame is written before the exception leaves.
raise_after_write(s, err) ==
    /\ pc' = [pc EXCEPT ![s] = "failed"]
    /\ error' = [error EXCEPT ![s] = err]
    /\ fs' = [fs EXCEPT !.output = to_csv(df[s])]
    /\ UNCHANGED <<output, source_df>>

\* An exception leaves run_pipeline: nothing is written on the way out.
Raise(s, err) ==
    /\ pc' = [pc EXCEPT ![s] = "failed"]
    /\ error' = [error EXCEPT ![s] = err]
    /\ UNCHANGED <<fs, output, source_df>>

\* app.py 105-108: the upload is stored at outputs/upload.csv.
StoreUpload(s) ==
    /\ pc[s] = "start"
    /\ own[s].flow = "upload"
    /\ fs' = [fs EXCEPT !.upload = to_csv(own[s].frame)]
    /\ pc' = [pc EXCEPT ![s] = "stored"]
    /\ UNCHANGED <<own, df, training_df, result, risk_scores, output, source_df,
                   error, call, ret>>

\* run_pipeline 57-58: generate_sample_flag.
LoadSample(s) ==
    /\ pc[s] = "start"
    /\ own[s].flow = "sample"
    /\ df' = [df EXCEPT ![s] = generate_sample(own[s].rows)]
    /\ pc' = [pc EXCEPT ![s] = "Loaded"]
    /\ UNCHANGED <<fs, own, training_df, result, risk_scores, output, source_df,
                   error, call, ret>>

\* run_pipeline 59-60: load_csv(input_path) reads outputs/upload.csv.
LoadCsv(s) ==
    /\ pc[s] = "stored"
    /\ LET loaded == load_csv(fs.upload)
       IN IF loaded.ok
          THEN /\ df' = [df EXCEPT ![s] = loaded.frame]
               /\ pc' = [pc EXCEPT ![s] = "Loaded"]
               /\ UNCHANGED <<fs, output, source_df, error>>
          ELSE /\ Raise(s, loaded.error)
               /\ UNCHANGED df
    /\ UNCHANGED <<own, training_df, result, risk_scores, call, ret>>

\* run_pipeline 61-62: neither a sample nor an input path.
NoSource(s) ==
    /\ pc[s] = "start"
    /\ own[s].flow = "none"
    /\ Raise(s, [kind |-> "ValueError", text |-> "Provide --input or --generate-sample.",
                 names |-> <<>>])
    /\ UNCHANGED <<own, df, training_df, result, risk_scores, call, ret>>

\* run_pipeline 64: training_df = _prepare_training_data(df).
Prepare(s) ==
    /\ pc[s] = "Loaded"
    /\ df' = [df EXCEPT ![s] = _prepare_training_data(df[s]).caller]
    /\ training_df' = [training_df EXCEPT ![s] = _prepare_training_data(df[s]).returned]
    /\ pc' = [pc EXCEPT ![s] = "Labeled"]
    /\ UNCHANGED <<fs, own, result, risk_scores, output, source_df, error, call, ret>>

\* run_pipeline 65: train_model(training_df) returns a ModelResult.
Train(s, importances) ==
    /\ pc[s] = "Labeled"
    /\ train_error(training_df[s]) = NoError
    /\ result' = [result EXCEPT ![s] = train_model(training_df[s], importances)]
    /\ pc' = [pc EXCEPT ![s] = "Trained"]
    /\ UNCHANGED <<fs, own, df, training_df, risk_scores, output, source_df, error,
                   call, ret>>

\* run_pipeline 65: train_model raises.
TrainFails(s) ==
    /\ pc[s] = "Labeled"
    /\ train_error(training_df[s]) # NoError
    /\ Raise(s, train_error(training_df[s]))
    /\ UNCHANGED <<own, df, training_df, result, risk_scores, call, ret>>

\* run_pipeline 66: risk_scores = score(result.model, df), one probability per row.
Score(s, proba) ==
    /\ pc[s] = "Trained"
    /\ risk_scores' = [risk_scores EXCEPT ![s] = proba]
    /\ pc' = [pc EXCEPT ![s] = "Scored"]
    /\ UNCHANGED <<fs, own, df, training_df, result, output, source_df, error, call, ret>>

\* run_pipeline 68-86: the output frame is built and written to output_path.
Finalize(s) ==
    /\ pc[s] = "Scored"
    /\ output' = [output EXCEPT ![s] = build_output(df[s], risk_scores[s], result[s])]
    /\ fs' = [fs EXCEPT !.output = to_csv(output'[s])]
    /\ pc' = [pc EXCEPT ![s] = "Finalized"]
    /\ UNCHANGED <<own, df, training_df, result, risk_scores, source_df, error, call, ret>>

\* app.py 102 / 111: source_df = pd.read_csv(output_path).
ReadBack(s) ==
    /\ pc[s] = "Finalized"
    /\ source_df' = [source_df EXCEPT ![s] = read_csv(fs.output)]
    /\ pc' = [pc EXCEPT ![s] = "Shown"]
    /\ UNCHANGED <<fs, own, df, training_df, result, risk_scores, output, error, call, ret>>

\* One run, every outcome of the forest.
Next ==
    \E s \in SessionIds :
        \/ StoreUpload(s)
        \/ LoadSample(s)
        \/ LoadCsv(s)
        \/ NoSource(s)
        \/ Prepare(s)
        \/ /\ pc[s] = "Labeled"
           /\ \E w \in Importances(Len(feature_names(training_df[s])), ForestUnits) :
                  Train(s, w)
        \/ TrainFails(s)
        \/ /\ pc[s] = "Trained"
           /\ \E p \in [DOMAIN df[s].rows -> ScoreSamples] : Score(s, p)
        \/ Finalize(s)
        \/ ReadBack(s)

Spec == Init /\ [][Next]_vars

(***************************************************************************)
(* Two dashboard sessions in one server process: each runs the handler on  *)
(* its own input; both use outputs/upload.csv and                          *)
(* outputs/retention_scores.csv (app.py 76, 106).                          *)
(***************************************************************************)
InitSessionsPair ==
    /\ \E a \in SessionInputs, b \in SessionInputs :
           InitSessions([s \in SessionIds |-> IF s = 1 THEN a ELSE b])
    /\ call = NoCall
    /\ ret = NoRet

NextSessions ==
    \E s \in SessionIds :
        \/ StoreUpload(s)
        \/ LoadSample(s)
        \/ LoadCsv(s)
        \/ Prepare(s)
        \/ /\ pc[s] = "Labeled"
           /\ Train(s, SeededImportances(training_df[s]))
        \/ /\ pc[s] = "Trained"
           /\ Score(s, SeededProba(df[s]))
        \/ Finalize(s)
        \/ ReadBack(s)

SpecSessions == InitSessionsPair /\ [][NextSessions]_vars

(***************************************************************************)
(* Single calls of the pure functions, over their input domains.           *)
(***************************************************************************)
ScoreRange == 0..10000

Near(t) == (t - Window)..(t + Window)

BandCalls == {[NoCall EXCEPT !.fn = "band", !.score = v] : v \in ScoreRange}

LabelCalls ==
    {[NoCall EXCEPT !.fn = "label",
                    !.frame = [columns |-> Range(REQUIRED_COLUMNS),
                               rows |-> <<Row(1000, dept, <<"A">>, e, o, a, p)>>]] :
        dept \in {<<"HR">>, <<"Sales">>},
        e \in Near(EngagementThreshold), o \in Near(OvertimeThreshold),
        a \in Near(AbsenteeismThreshold), p \in Near(PromotionThreshold)}

ExtractCalls ==
    {[NoCall EXCEPT !.fn = "extract", !.names = feature_names(generate_sample(2)),
                    !.weights = w] :
        w \in Importances(Len(feature_names(generate_sample(2))), ImportanceUnits)}

InitFn ==
    /\ InitSessions([s \in SessionIds |-> NoInput])
    /\ call \in BandCalls \cup LabelCalls \cup ExtractCalls
    /\ ret = NoRet

CallBand ==
    /\ call.fn = "band" /\ ~call.done
    /\ ret' = [ret EXCEPT !.band = _infer_risk_band(call.score)]
    /\ call' = [call EXCEPT !.done = TRUE]
    /\ UNCHANGED <<fs, pc, own, df, training_df, result, risk_scores, output,
                   source_df, error>>

CallLabel ==
    /\ call.fn = "label" /\ ~call.done
    /\ ret' = [ret EXCEPT !.frames = _prepare_training_data(call.frame)]
    /\ call' = [call EXCEPT !.done = TRUE]
    /\ UNCHANGED <<fs, pc, own, df, training_df, result, risk_scores, output,
                   source_df, error>>

CallExtract ==
    /\ call.fn = "extract" /\ ~call.done
    /\ ret' = [ret EXCEPT !.table = _extract_feature_importance(call.names, call.weights)]
    /\ call' = [call EXCEPT !.done = TRUE]
    /\ UNCHANGED <<fs, pc, own, df, training_df, result, risk_scores, output,
                   source_df, error>>

NextFn == CallBand \/ CallLabel \/ CallExtract

SpecFn == InitFn /\ [][NextFn]_vars

(***************************************************************************)
(* Properties.                                                             *)
(***************************************************************************)
BandRank(b) == CASE b = "Low" -> 0 [] b = "Medium" -> 1 [] b = "High" -> 2

\* The frame run_pipeline starts from, for the session's own input.
InputFrame(s) ==
    IF own[s].flow = "sample" THEN generate_sample(own[s].rows) ELSE own[s].frame

AfterLabel(s) ==
    \/ pc[s] \in {"Labeled", "Trained", "Scored", "Finalized", "Shown"}
    \/ pc[s] = "failed" /\ training_df[s] # NoFrame

Emitted(s) == pc[s] \in {"Finalized", "Shown"}

\* C1: for every score in [0,1] the bander returns exactly one band: High iff
\* the score is at least 0.7, Medium iff it is at least 0.4 and below 0.7, Low
\* iff it is below 0.4; 0.7 is High, 0.4 is Medium, and the band never
\* decreases when the score grows (Low < Medium < High).
C1_BandThresholds ==
    (call.fn = "band" /\ call.done) =>
        /\ ret.band \in {"Low", "Medium", "High"}
        /\ (ret.band = "High") <=> (call.score >= 7000)
        /\ (ret.band = "Medium") <=> (call.score >= 4000 /\ call.score < 7000)
        /\ (ret.band = "Low") <=> (call.score < 4000)
        /\ \A t \in ({call.score - 1, call.score + 1, 0, 3999, 4000, 6999, 7000, 10000}
                     \cap ScoreRange) :
               /\ t <= call.score => BandRank(_infer_risk_band(t)) <= BandRank(ret.band)
               /\ t >= call.score => BandRank(_infer_risk_band(t)) >= BandRank(ret.band)

C1_Witness == call.fn = "band" /\ call.done /\ call.score = 7000 /\ ret.band = "High"

\* C2: without a supplied label, the synthesized label of a record is 1 exactly
\* when at least two of engagement_score < 60, overtime_hours_month > 12,
\* absenteeism_days_month > 3, last_promotion_months > 36 hold (all strict),
\* else 0; nothing but these four signals of the record decides it.
C2_LabelRule ==
    (call.fn = "label" /\ call.done) =>
        LET r == call.frame.rows[1]
            met == {k \in 1..4 :
                       \/ k = 1 /\ r["engagement_score"] < 60
                       \/ k = 2 /\ r["overtime_hours_month"] > 12
                       \/ k = 3 /\ r["absenteeism_days_month"] > 3
                       \/ k = 4 /\ r["last_promotion_months"] > 36}
        IN /\ Len(ret.frames.returned.rows) = 1
           /\ ret.frames.returned.rows[1][TARGET_COLUMN]
                  = (IF Cardinality(met) >= 2 THEN 1 ELSE 0)

C2_Witness ==
    /\ call.fn = "label" /\ call.done
    /\ call.frame.rows[1]["engagement_score"] = 59
    /\ call.frame.rows[1]["overtime_hours_month"] = 12
    /\ call.frame.rows[1]["absenteeism_days_month"] = 4
    /\ call.frame.rows[1]["last_promotion_months"] = 36
    /\ ret.frames.returned.rows[1][TARGET_COLUMN] = 1

\* C3: when the loaded record collection lacks required fields, validation
\* fails with an error that names every missing field, and it fails before
\* label synthesis, encoding or training: no run gets past loading with a
\* required field missing.
C3_MissingColumns ==
    \A s \in SessionIds :
        own[s].flow = "upload" /\ pc[s] \notin {"start", "stored"} =>
            LET lacking == {c \in Range(REQUIRED_COLUMNS) : c \notin own[s].frame.columns}
            IN IF lacking # {}
               THEN /\ pc[s] = "failed"
                    /\ error[s].kind = "ValueError"
                    /\ Range(error[s].names) = lacking
                    /\ training_df[s] = NoFrame
                    /\ ~result[s].fitted
                    /\ ~fs.output.exists
               ELSE error[s].names = <<>>

C3_Witness ==
    /\ pc[1] = "failed"
    /\ Range(error[1].names) = {"engagement_score", "dept"}
    /\ training_df[1] = NoFrame

StepOrder ==
    {<<"start", "stored">>, <<"start", "Loaded">>, <<"stored", "Loaded">>,
     <<"Loaded", "Labeled">>, <<"Labeled", "Trained">>, <<"Trained", "Scored">>,
     <<"Scored", "Finalized">>, <<"Finalized", "Shown">>}
    \cup {<<p, "failed">> : p \in {"start", "stored", "Loaded", "Labeled", "Trained", "Scored"}}

\* C4: a run moves only Loaded -> Labeled -> Trained -> Scored -> Finalized; the
\* scored output is written only by the step that ends a run whose every
\* earlier step succeeded; a run that fails (no input source, a schema
\* violation, an empty or one-class record set) writes no output.
C4_FailFast ==
    /\ [](\A s \in SessionIds : pc[s] = "failed" => ~fs.output.exists)
    /\ [][/\ \A s \in SessionIds : pc'[s] # pc[s] => <<pc[s], pc'[s]>> \in StepOrder
          /\ fs'.output # fs.output =>
                 \E s \in SessionIds :
                     /\ pc[s] = "Scored" /\ pc'[s] = "Finalized"
                     /\ result[s].fitted
                     /\ train_error(training_df[s]) = NoError
                     /\ Len(risk_scores[s]) = Len(df[s].rows)
                     /\ fs'.output = to_csv(output'[s])
          /\ \A s \in SessionIds : pc'[s] = "failed" => fs'.output = fs.output]_vars

C4_Witness ==
    /\ pc[1] = "failed"
    /\ error[1].kind = "IndexError"
    /\ Len(df[1].rows) = 2
    /\ ~fs.output.exists

\* C5: in every completed run all Scored Records carry the same top driver,
\* and it is the name of the highest-weight entry of the run's Feature
\* Importance Table (the first entry when weights tie).
C5_TopDriverIsTopEntry ==
    \A s \in SessionIds :
        Emitted(s) =>
            \A i \in DOMAIN output[s].rows :
                /\ output[s].rows[i]["top_driver"] = output[s].rows[1]["top_driver"]
                /\ output[s].rows[i]["top_driver"] = result[s].feature_importance[1].name

C7_ImportanceTable ==
    (call.fn = "extract" /\ call.done) =>
        LET t == ret.table
            col(k) == CHOOSE i \in DOMAIN call.names : call.names[i] = t[k].name
            kept == {t[k].name : k \in DOMAIN t}
        IN /\ Len(t) <= 8
           /\ Len(t) = (IF Len(call.names) < 8 THEN Len(call.names) ELSE 8)
           /\ \A k \in DOMAIN t :
                  \E i \in DOMAIN call.names :
                      call.names[i] = t[k].name /\ call.weights[i] = t[k].weight
           /\ Cardinality(kept) = Len(t)
           /\ \A k \in 1..(Len(t) - 1) : t[k].weight >= t[k + 1].weight
           /\ \A k \in DOMAIN t, i \in DOMAIN call.names :
                  call.names[i] \notin kept =>
                      /\ call.weights[i] <= t[k].weight
                      /\ call.weights[i] = t[k].weight => col(k) < i
           /\ \A j \in DOMAIN t, k \in DOMAIN t :
                  j < k /\ t[j].weight = t[k].weight => col(j) < col(k)

C7_Witness ==
    /\ call.fn = "extract" /\ call.done
    /\ Len(call.names) > 8
    /\ Len(ret.table) = 8
    /\ ret.table[1].weight > ret.table[2].weight
    /\ ret.table[2].weight = ret.table[3].weight
    /\ ret.table[3].weight > ret.table[4].weight

\* C8: preparing training data leaves the caller's record collection as it
\* was loaded: a synthesized exit_flag is only on the training copy and never
\* in the input or the written output; a supplied exit_flag is used as it is.
C8_InputUntouched ==
    \A s \in SessionIds :
        AfterLabel(s) =>
            /\ df[s] = InputFrame(s)
            /\ TARGET_COLUMN \in training_df[s].columns
            /\ Project(training_df[s], features(df[s])) = Project(df[s], features(df[s]))
            /\ IF TARGET_COLUMN \in InputFrame(s).columns
               THEN training_df[s] = InputFrame(s)
               ELSE /\ TARGET_COLUMN \notin df[s].columns
                    /\ TARGET_COLUMN \notin fs.output.columns

C8_Witness ==
    /\ pc[1] = "Finalized"
    /\ TARGET_COLUMN \notin df[1].columns
    /\ TARGET_COLUMN \in training_df[1].columns
    /\ fs.output.exists

\* C9: two sessions share no mutable state: whatever the interleaving, each
\* session that ran the pipeline and read the scored output back holds the
\* collection its own run produced from its own input.
C9_OwnOutput ==
    \A s \in SessionIds :
        pc[s] = "Shown" =>
            /\ df[s] = InputFrame(s)
            /\ source_df[s] = output[s]
            /\ Len(source_df[s].rows) = Len(InputFrame(s).rows)

\* C10: in every emitted output each row's risk_band is the bander applied to
\* the emitted (3-decimal) risk_score, so risk_band is High exactly when the
\* emitted risk_score is at least 0.7, and there is one row per input record.
C10_BandMatchesEmittedScore ==
    \A s \in SessionIds :
        Emitted(s) =>
            /\ Len(output[s].rows) = Len(df[s].rows)
            /\ fs.output = to_csv(output[s])
            /\ \A i \in DOMAIN output[s].rows :
                   LET row == output[s].rows[i]
                   IN /\ row["employee_id"] = df[s].rows[i]["employee_id"]
                      /\ row["risk_score"] % 10 = 0
                      /\ 2 * row["risk_score"] >= 2 * risk_scores[s][i] - 10
                      /\ 2 * row["risk_score"] <= 2 * risk_scores[s][i] + 10
                      /\ (row["risk_band"] = "High") <=> (row["risk_score"] >= 7000)
                      /\ (row["risk_band"] = "Medium") <=>
                             (row["risk_score"] >= 4000 /\ row["risk_score"] < 7000)
                      /\ (row["risk_band"] = "Low") <=> (row["risk_score"] < 4000)

C10_Witness ==
    /\ pc[1] = "Shown"
    /\ risk_scores[1][1] = 6996
    /\ source_df[1].rows[1]["risk_score"] = 7000
    /\ source_df[1].rows[1]["risk_band"] = "High"

====
